---- MODULE Spec2Model ----
(***************************************************************************)
(* Batch inference and persistence pipeline of the AI Corporate Suite.     *)
(*                                                                         *)
(* One FastAPI process (src/main.py) serves upload requests for three      *)
(* domains.  Every handler builds a fresh predictor and awaits its         *)
(* predict_from_file; the coroutines contain no suspension point, so the   *)
(* event loop runs one request to completion before it starts the next.    *)
(* The store (Supabase) is reached through a client kept in a module       *)
(* global of src/db/supabase_client.py.                                    *)
(*                                                                         *)
(* Spec is that process.  SpecRace puts a second worker process next to it, *)
(* both inside the chunk loop of an engine upload; SpecTiers runs the       *)
(* classifiers alone over every pair of scores.                            *)
(*                                                                         *)
(* Scores are kept in hundredths (0.80 is 80).  batch_size stands for the  *)
(* literals 1000 / 4000 / 5000 of the three predictors, scaled down so     *)
(* that uploads of a few rows are split into several chunks.               *)
(***************************************************************************)
EXTENDS Integers, Sequences, FiniteSets, TLC

\* ------------------------------------------------------------------ bounds
MaxUploads == 2
MaxRows == 3
MaxKeys == 2
MaxVal == 1
MaxBatch == 2
MaxClock == 1
MaxScore == 100
MaxCols == 3
MaxThreads == 2
MaxCalls == 2

Keys == 1..MaxKeys
Vals == 0..MaxVal

Domains == {"smartport", "nasa", "stockout"}

VARIABLES
    supabase_client,   \* the module global _supabase_client is not None
    batch_size,        \* the (scaled) literal batch_size
    served,            \* the number of requests the process has accepted
    req,               \* the request being served: its predictor and its locals
    store,             \* [Domains -> set of rows]: the three result tables
    last,              \* history: per key, the last engine record the store
                       \* accepted (row) and how many it accepted (n: 0, 1,
                       \* or 2 for more than one)
    now,               \* the wall clock, in whole seconds
    loads,             \* history: per domain, the joblib.load calls of its artifact
    peer,              \* the request a second worker process is serving
    probe,             \* a pair of scores handed to a classifier, and its tiers
    frame,             \* a table handed to a domain's feature preparation
    singleton          \* the threads inside get_supabase and the clients made

\* What a request of the first worker leaves alone.
aside == <<peer, probe, frame, singleton>>

vars == <<supabase_client, batch_size, served, req, store, last, now, loads, peer, probe,
         frame, singleton>>

\* ------------------------------------------------------------------ inputs
\* What a file can be.  "noid": the entity-identifier column is absent;
\* "unreadable": pd.read_csv raises; "badarity": the pipeline rejects the
\* feature table; "badcycle": a cycle cell holds text that is no number (NASA);
\* "noprice": neither 'Price' nor 'price' is a column (stockout);
\* "emptyprice": the price cell of the first row is empty or does not parse
\* (stockout).
FileKinds(d) ==
    {"ok", "unreadable", "noid", "badarity"}
        \cup (IF d = "nasa" THEN {"badcycle"} ELSE {})
        \cup (IF d = "stockout" THEN {"noprice", "emptyprice"} ELSE {})

\* The kinds of file whose cells reach the records of the upload; of the
\* others only the number of rows matters.
ReadsContent(d, kind) ==
    kind \in {"ok", "emptyprice"} \/ (kind = "noid" /\ d # "nasa")

\* A file: what kind it is, the feature value its rows carry (the model's
\* score depends on it) and one (unit_id, cycle) pair per row, abstracted to
\* a key.  Only the engine domain reads the keys; an unreadable file has no
\* rows to speak of.
RECURSIVE SeqsUpTo(_, _)
SeqsUpTo(S, n) ==
    IF n = 0 THEN {<<>>}
    ELSE LET shorter == SeqsUpTo(S, n - 1)
         IN  shorter \cup {Append(s, x) : s \in {t \in shorter : Len(t) = n - 1}, x \in S}

Files(d) ==
    {f \in [kind : FileKinds(d), val : Vals,
            rows : SeqsUpTo(IF d = "nasa" THEN Keys ELSE {1}, MaxRows)] :
        /\ f.kind = "unreadable" => f.rows = <<>>
        /\ ~ReadsContent(d, f.kind) => f.val = 0 /\ \A k \in 1..Len(f.rows) : f.rows[k] = 1}

NoFile == [kind |-> "none", val |-> 0, rows |-> <<>>]
NoResp == [kind |-> "none", success |-> FALSE, detail |-> "", fields |-> {}, processed |-> 0]

NoRow == [prediction_id |-> <<"uuid", 0, 0>>, key |-> 0, predicted_rul |-> 0, timestamp |-> 0]

NoFrame == [dom |-> "none", given |-> <<>>, X |-> <<>>, out |-> <<>>]

NoCalls == [cached |-> 0, made |-> 0, thread |-> <<>>]

NoProbe == [fn |-> "none", a |-> 0, b |-> 0, ta |-> "", tb |-> ""]

IdleReq ==
    [dom |-> "none", pc |-> "idle", file |-> NoFile, seq |-> 0,
     pipeline |-> FALSE, supabase |-> FALSE, read |-> FALSE, ts |-> 0,
     scores |-> <<>>, records |-> <<>>, i |-> 1,
     submitted |-> {}, failed |-> {}, transient |-> {}, written |-> <<>>,
     failedFrom |-> "none", resp |-> NoResp]

Init ==
    /\ supabase_client = FALSE
    /\ batch_size \in 1..MaxBatch
    /\ served = 0
    /\ req = IdleReq
    /\ store = [d \in Domains |-> {}]
    /\ last = [k \in Keys |-> [row |-> NoRow, n |-> 0]]
    /\ now = 0
    /\ loads = [d \in Domains |-> 0]
    /\ peer = IdleReq
    /\ probe = NoProbe
    /\ frame = NoFrame
    /\ singleton = NoCalls

\* ------------------------------------------------------------ pure helpers
\* The trained artifact is opaque: a fixed function from a row's features to
\* a score.  Probabilities are in hundredths, remaining life in cycles.
ModelScore(d, val) ==
    IF d = "nasa" THEN 20 + 50 * val ELSE (10 + 45 * val) % 101

\* smartport_predictor.py:66
SmartPortLevel(x) ==
    IF x >= 90 THEN "CRITICAL" ELSE IF x >= 70 THEN "WARNING" ELSE "NORMAL"

\* Thresholds that a score has to exceed.
_get_risk_level_strict(score) ==
    IF score > 80 THEN "CRITICAL"
    ELSE IF score > 50 THEN "HIGH"
    ELSE IF score > 20 THEN "MEDIUM"
    ELSE "LOW"

\* stockout_predictor.py:129-136
_get_risk_level(score) ==
    IF score >= 80 THEN "CRITICAL"
    ELSE IF score >= 50 THEN "HIGH"
    ELSE IF score >= 20 THEN "MEDIUM"
    ELSE "LOW"

\* A health index with its two alarm bands exchanged.
status_swapped(latest_rul) ==
    IF latest_rul < 30 THEN "MAINTENANCE REQUIRED"
    ELSE IF latest_rul < 75 THEN "CRITICAL"
    ELSE "STABLE"

\* nasa_streamlit.py:87-91: the health index of an engine, from the predicted
\* remaining useful life (in cycles) of its latest record.
status(latest_rul) ==
    IF latest_rul < 30 THEN "CRITICAL"
    ELSE IF latest_rul < 75 THEN "MAINTENANCE REQUIRED"
    ELSE "STABLE"

\* The tier a domain gives a score.
Tier(d, score) ==
    CASE d = "smartport" -> SmartPortLevel(score)
      [] d = "stockout" -> _get_risk_level(score)
      [] d = "nasa" -> status(score)

\* A dictionary without an entry for WARNING.
ACTION_MAP_partial(level) ==
    CASE level = "CRITICAL" -> "IMMEDIATE: Priority berthing & Tugboat standby."
      [] level = "NORMAL" -> "ROUTINE: Follow standard operations."
      [] OTHER -> "NaN"

\* smartport_predictor.py:30-34, applied by Series.map: a tier that is no key
\* of the dictionary maps to a missing value.
ACTION_MAP(level) ==
    CASE level = "CRITICAL" -> "IMMEDIATE: Priority berthing & Tugboat standby."
      [] level = "WARNING" -> "PROACTIVE: Verify ETA and terminal capacity."
      [] level = "NORMAL" -> "ROUTINE: Follow standard operations."
      [] OTHER -> "NaN"

Min(a, b) == IF a <= b THEN a ELSE b

\* records[i:i + batch_size], with i counted from 1
Batch(records, i) ==
    SubSeq(records, i, Min(i + batch_size - 1, Len(records)))

\* A loop that steps one record too far.
NextChunkStart_skip(i) == i + batch_size + 1

\* range(0, len(records), batch_size): the start of the chunk after i
NextChunkStart(i) == i + batch_size

\* (len(records) + batch_size - 1) // batch_size, the number of chunks
total_batches(records) == (Len(records) + batch_size - 1) \div batch_size

\* i // batch_size, the number of the chunk that starts at i
ChunkNo(i) == (i - 1) \div batch_size

Range(s) == {s[k] : k \in 1..Len(s)}

\* ------------------------------------------------------------------ store
\* An insert that puts the batch in the place of the table.
Insert_replace(table, batch) == Range(batch)

\* table(name).insert(batch): every record becomes a new row.
Insert(table, batch) == table \cup Range(batch)

\* An upsert that ignores its conflict key.
Upsert_append(table, batch) == table \cup Range(batch)

\* table(name).upsert(batch, on_conflict="unit_id,cycle"): a record replaces
\* the row that carries its key, the records of one batch taken in order.
RECURSIVE Upsert(_, _)
Upsert(table, batch) ==
    IF batch = <<>> THEN table
    ELSE Upsert({row \in table : row.key # Head(batch).key} \cup {Head(batch)},
                Tail(batch))

\* nasa upserts (nasa_predictor.py:144), the other two insert.
Write(d, table, batch) ==
    IF d = "nasa" THEN Upsert(table, batch) ELSE Insert(table, batch)

\* -------------------------------------------------------------- responses
Fields(d) ==
    CASE d = "smartport" -> {"success", "predictions_generated", "distribution", "timestamp"}
      [] d = "nasa" -> {"success", "processed_records"}
      [] d = "stockout" -> {"success", "processed_records", "total_exposure",
                            "risk_summary", "top_alerts"}

\* return {"success": True, ...}
Success(d, n) ==
    [kind |-> "json", success |-> TRUE, detail |-> "", fields |-> Fields(d), processed |-> n]

\* return {"success": False, "detail": ...}
Failure(detail) ==
    [kind |-> "json", success |-> FALSE, detail |-> detail,
     fields |-> {"success", "detail"}, processed |-> 0]

\* An exception left predict_from_file or the constructor: the handler turns
\* it into HTTPException(500), whose body is {"detail": ...}.
Fault(detail) ==
    [kind |-> "fault", success |-> FALSE, detail |-> detail,
     fields |-> {"detail"}, processed |-> 0]

\* The except clause of predict_from_file: SmartPort re-raises, the other two
\* return a failure value.
OnError(d, detail) == IF d = "smartport" THEN Fault(detail) ELSE Failure(detail)

\* The pipeline state a position in the code belongs to.
PhaseOf(pc) == IF pc = "LOADED" THEN "RECEIVED" ELSE pc

Fail(r, resp) ==
    [r EXCEPT !.pc = "FAILED", !.failedFrom = PhaseOf(r.pc), !.resp = resp]

Terminal(r) == r.pc \in {"SUMMARIZED", "FAILED"}


\* ---------------------------------------------------------------- actions
\* A request reaches its handler (main.py:24-55).  The handlers are
\* coroutines without a suspension point: the event loop starts a request
\* only when the one before it has been answered.
Receive(d, f) ==
    /\ req.pc = "idle"
    /\ served < MaxUploads
    /\ served' = served + 1
    /\ req' = [IdleReq EXCEPT !.dom = d, !.pc = "RECEIVED", !.file = f,
                              !.seq = served + 1]
    /\ UNCHANGED <<supabase_client, batch_size, store, last, now, loads, aside>>

\* get_supabase() (supabase_client.py:12-32): the cached client, or a new one
\* when there is none yet.  created: SUPABASE_URL and SUPABASE_KEY are set
\* and create_client returned; otherwise the call returns None and caches
\* nothing.
GetSupabase(created) == supabase_client \/ created

\* predictor = XPredictor() (main.py:29, 40, 51).  found: the artifact
\* models/<domain>_model.pkl exists and joblib loads it.
\* SmartPortPredictor.__init__ raises when it is missing, before it asks for
\* the store client; the other two keep pipeline = None.  Every predictor
\* that finds its artifact loads it anew.
Construct(created, found) ==
    /\ req.pc = "RECEIVED"
    /\ IF req.dom = "smartport" /\ ~found
       THEN /\ req' = Fail(req, Fault("Model not found"))
            /\ UNCHANGED <<supabase_client, loads>>
       ELSE /\ supabase_client' = GetSupabase(created)
            /\ loads' = IF found THEN [loads EXCEPT ![req.dom] = @ + 1] ELSE loads
            /\ req' = [req EXCEPT !.pc = "LOADED",
                                  !.pipeline = found,
                                  !.supabase = GetSupabase(created)]
    /\ UNCHANGED <<batch_size, served, store, last, now, aside>>

\* The column predict_from_file insists on: only the engine predictor checks
\* for one (nasa_predictor.py:93-100).
MissingId(d, f) == d = "nasa" /\ f.kind = "noid"

\* A guard that lets every predictor through.
NotInitialized_never(r) == FALSE

\* "if not self.pipeline:", the first statement of predict_from_file
NotInitialized(r) == ~r.pipeline

\* predict_from_file up to the feature table: the pipeline guard, read_csv
\* (from which on the file has been read), the required-column check, the
\* column alignment.
Normalize ==
    /\ req.pc = "LOADED"
    /\ req' = IF NotInitialized(req)
              THEN Fail(req, Failure(IF req.dom = "nasa" THEN "Model not initialized"
                                     ELSE "Engine not initialized"))
              ELSE LET opened == [req EXCEPT !.read = TRUE]
                   IN  IF req.file.kind = "unreadable"
                       THEN Fail(opened, OnError(req.dom, "read_csv"))
                       ELSE IF MissingId(req.dom, req.file)
                       THEN Fail(opened, Failure("Missing required column: unit_id"))
                       ELSE [opened EXCEPT !.pc = "NORMALIZED"]
    /\ UNCHANGED <<supabase_client, batch_size, served, store, last, now, loads, aside>>

\* An exception of the pipeline swallowed, every row scored zero.
ScoreError_zeros(r) ==
    [r EXCEPT !.pc = "SCORED", !.scores = [k \in 1..Len(r.file.rows) |-> 0]]

\* What follows an exception of pipeline.predict / predict_proba.
ScoreError(r) == Fail(r, OnError(r.dom, "predict"))

\* One call of the pipeline on the whole table (its feature engineering
\* included); an exception ends the request.
Score ==
    /\ req.pc = "NORMALIZED"
    /\ req' = IF req.file.kind = "badarity"
              THEN ScoreError(req)
              ELSE [req EXCEPT !.pc = "SCORED",
                               !.scores = [k \in 1..Len(req.file.rows) |->
                                             ModelScore(req.dom, req.file.val)]]
    /\ UNCHANGED <<supabase_client, batch_size, served, store, last, now, loads, aside>>

\* str(uuid.uuid4()): a fresh identifier, named here by the request and the
\* row it was drawn for.
uuid4(seq, k) == <<"uuid", seq, k>>

\* f"SP_{datetime.now().strftime('%Y%m%d%H%M%S')}_{record['vessel_index']}"
SmartPortId(second, index) == <<"SP", second, index>>

\* The price and units-sold cells of row k of a product file: <<number>>, or
\* <<>> for a cell that is empty or does not parse.
PriceCell(f, k) == IF f.kind = "emptyprice" /\ k = 1 THEN <<>> ELSE <<2>>
UnitsCell(f, k) == <<3>>

\* pd.to_numeric(column, errors='coerce').fillna(0.0), cell by cell
to_numeric_fillna(cell) == IF cell = <<>> THEN 0 ELSE cell[1]

\* (probabilities * price * velocity), row k
impact_score(r, k) ==
    r.scores[k] * to_numeric_fillna(PriceCell(r.file, k))
                * to_numeric_fillna(UnitsCell(r.file, k))

\* The records of an upload, one per score.  prediction_id is a uuid4 for the
\* engine and product domains and SP_<second>_<row index> for the vessel
\* domain, the loop that assigns it taken within one clock second.  The
\* engine timestamp has microseconds: it is the instant of the request,
\* later than that of every request before it.  The other two timestamps are
\* whole seconds, read when the result table is built (r.ts).
Records(r) ==
    [k \in 1..Len(r.scores) |->
        CASE r.dom = "nasa" ->
               [prediction_id |-> uuid4(r.seq, k), key |-> r.file.rows[k],
                predicted_rul |-> r.scores[k], timestamp |-> r.seq]
          [] r.dom = "stockout" ->
               [prediction_id |-> uuid4(r.seq, k),
                product_id |-> IF r.file.kind = "noid" THEN "Unknown"
                               ELSE ToString(r.file.rows[k]),
                risk_score |-> r.scores[k],
                risk_level |-> _get_risk_level(r.scores[k]),
                financial_impact |-> impact_score(r, k), timestamp |-> r.ts]
          [] r.dom = "smartport" ->
               [prediction_id |-> SmartPortId(now, k), vessel_index |-> k,
                risk_score |-> r.scores[k], risk_level |-> SmartPortLevel(r.scores[k]),
                recommended_action |-> ACTION_MAP(SmartPortLevel(r.scores[k])),
                timestamp |-> r.ts]]

\* Scores to tiers: smartport_predictor.py:65-67 (right after scoring) and
\* stockout_predictor.py:169-176 (after the financial impact, building the
\* records).  The engine predictor has no tiers.
Classify ==
    /\ \/ /\ req.dom = "smartport" /\ req.pc = "SCORED"
          /\ req' = [req EXCEPT !.pc = "CLASSIFIED", !.ts = now]
       \/ /\ req.dom = "stockout" /\ req.pc = "METRICS_DERIVED"
          /\ req' = [req EXCEPT !.pc = "CLASSIFIED", !.records = Records(req)]
    /\ UNCHANGED <<supabase_client, batch_size, served, store, last, now, loads, aside>>

\* Derived fields: the recommended action and prediction_id of a vessel
\* (smartport_predictor.py:71-79), the financial impact of a product
\* (stockout_predictor.py:151-163, which fails when the file has no price
\* column: pd.to_numeric of the scalar default has no fillna), the result
\* table of an engine (nasa_predictor.py:107-115, where astype(int) fails on
\* a cycle cell that holds text).
Derive ==
    /\ \/ /\ req.dom = "smartport" /\ req.pc = "CLASSIFIED"
          /\ req' = [req EXCEPT !.pc = "METRICS_DERIVED", !.records = Records(req)]
       \/ /\ req.dom = "stockout" /\ req.pc = "SCORED"
          /\ req' = IF req.file.kind = "noprice"
                    THEN Fail(req, Failure("no attribute fillna"))
                    ELSE [req EXCEPT !.pc = "METRICS_DERIVED", !.ts = now]
       \/ /\ req.dom = "nasa" /\ req.pc = "SCORED"
          /\ req' = IF req.file.kind = "badcycle"
                    THEN Fail(req, Failure("cannot convert to int"))
                    ELSE [req EXCEPT !.pc = "METRICS_DERIVED", !.records = Records(req)]
    /\ UNCHANGED <<supabase_client, batch_size, served, store, last, now, loads, aside>>

\* The position of the code at which the chunk loop runs.
ReadyToPersist(r) ==
    r.pc = (IF r.dom = "stockout" THEN "CLASSIFIED" ELSE "METRICS_DERIVED")

\* "if self.supabase:" guards persistence in the engine and product
\* predictors; the vessel predictor enters its loop whatever the client is.
EntersLoop(r) == r.dom = "smartport" \/ r.supabase

\* What a failed chunk write leads to.  _persist_batches and _persist_to_db
\* catch the exception around the whole loop: the loop is over and
\* persistence returns.  The vessel predictor lets it reach the handler.
ChunkError(r, c, outcome) ==
    LET seen == [r EXCEPT !.submitted = @ \cup {c}, !.failed = @ \cup {c},
                          !.transient = IF outcome = "transient" THEN @ \cup {c} ELSE @]
    IN  IF r.dom = "smartport"
        THEN Fail(seen, Fault("insert"))
        ELSE [seen EXCEPT !.pc = "PERSISTED"]

\* The history of accepted engine records, a batch taken in order.
RECURSIVE Accepted(_, _)
Accepted(h, batch) ==
    IF batch = <<>> THEN h
    ELSE Accepted([h EXCEPT ![Head(batch).key] = [row |-> Head(batch), n |-> Min(@.n + 1, 2)]],
                  Tail(batch))

\* One turn of the chunk loop: the write of records[i:i + batch_size].
\* outcome is the store's answer: "ok", a "transient" network failure or a
\* "permanent" (validation) failure.  A vessel predictor without a client
\* fails on self.supabase.table.
PersistChunk(outcome) ==
    LET c == ChunkNo(req.i)
        batch == Batch(req.records, req.i)
    IN  /\ ReadyToPersist(req)
        /\ EntersLoop(req)
        /\ req.i <= Len(req.records)
        /\ IF ~req.supabase
           THEN /\ req' = Fail(req, Fault("NoneType has no attribute table"))
                /\ UNCHANGED <<store, last>>
           ELSE \/ /\ outcome = "ok"
                   /\ store' = [store EXCEPT ![req.dom] = Write(req.dom, @, batch)]
                   /\ last' = IF req.dom = "nasa" THEN Accepted(last, batch) ELSE last
                   /\ req' = [req EXCEPT !.i = NextChunkStart(req.i),
                                         !.submitted = @ \cup {c},
                                         !.written = @ \o [k \in 1..Len(batch) |-> req.i + k - 1]]
                \/ /\ outcome # "ok"
                   /\ req' = ChunkError(req, c, outcome)
                   /\ UNCHANGED <<store, last>>
        /\ UNCHANGED <<supabase_client, batch_size, served, now, loads, aside>>

\* The loop is over (or was never entered): persistence returns.
EndPersist ==
    /\ ReadyToPersist(req)
    /\ ~EntersLoop(req) \/ req.i > Len(req.records)
    /\ req' = [req EXCEPT !.pc = "PERSISTED"]
    /\ UNCHANGED <<supabase_client, batch_size, served, store, last, now, loads, aside>>

\* return {"success": True, ...}
Summarize ==
    /\ req.pc = "PERSISTED"
    /\ req' = [req EXCEPT !.pc = "SUMMARIZED",
                          !.resp = Success(req.dom, Len(req.records))]
    /\ UNCHANGED <<supabase_client, batch_size, served, store, last, now, loads, aside>>

\* return JSONResponse(content=result) / raise HTTPException: the handler is
\* over and the next request can be taken.
Respond ==
    /\ Terminal(req)
    /\ req' = IdleReq
    /\ UNCHANGED <<supabase_client, batch_size, served, store, last, now, loads, aside>>

\* A second of wall-clock time passes.
Tick ==
    /\ now < MaxClock
    /\ now' = now + 1
    /\ UNCHANGED <<supabase_client, batch_size, served, req, store, last, loads, aside>>

Outcomes == {"ok", "transient", "permanent"}

Next ==
    \/ \E d \in Domains : \E f \in Files(d) : Receive(d, f)
    \/ \E created \in BOOLEAN : \E found \in BOOLEAN : Construct(created, found)
    \/ Normalize
    \/ Score
    \/ Classify
    \/ Derive
    \/ \E outcome \in Outcomes : PersistChunk(outcome)
    \/ EndPersist
    \/ Summarize
    \/ Respond
    \/ Tick

Spec == Init /\ [][Next]_vars

\* ------------------------------------------------------------ two workers
\* Two instances of the service against the same store, each serving an
\* engine upload that has reached its chunk loop.  The handlers of one
\* process never interleave; those of two processes do, chunk by chunk.

\* The request of an engine upload of file f at the start of its chunk loop.
AtLoop(seq, f) ==
    LET scored == [IdleReq EXCEPT !.dom = "nasa", !.file = f, !.seq = seq,
                                  !.pipeline = TRUE, !.supabase = TRUE, !.read = TRUE,
                                  !.scores = [k \in 1..Len(f.rows) |->
                                                ModelScore("nasa", f.val)]]
    IN  [scored EXCEPT !.pc = "METRICS_DERIVED", !.records = Records(scored)]

EngineFiles == {f \in Files("nasa") : f.kind = "ok" /\ f.rows # <<>>}

InitRace ==
    /\ supabase_client = TRUE
    /\ batch_size \in 1..MaxBatch
    /\ served = 1
    /\ req \in {AtLoop(1, f) : f \in EngineFiles}
    /\ peer \in {AtLoop(2, f) : f \in EngineFiles}
    /\ store = [d \in Domains |-> {}]
    /\ last = [k \in Keys |-> [row |-> NoRow, n |-> 0]]
    /\ now = 0
    /\ loads = [d \in Domains |-> IF d = "nasa" THEN 1 ELSE 0]
    /\ probe = NoProbe
    /\ frame = NoFrame
    /\ singleton = NoCalls

\* One turn of the chunk loop of the second worker (_persist_batches).
PeerChunk(outcome) ==
    LET c == ChunkNo(peer.i)
        batch == Batch(peer.records, peer.i)
    IN  /\ ReadyToPersist(peer)
        /\ EntersLoop(peer)
        /\ peer.i <= Len(peer.records)
        /\ \/ /\ outcome = "ok"
              /\ store' = [store EXCEPT ![peer.dom] = Write(peer.dom, @, batch)]
              /\ last' = Accepted(last, batch)
              /\ peer' = [peer EXCEPT !.i = NextChunkStart(peer.i),
                                      !.submitted = @ \cup {c},
                                      !.written = @ \o [k \in 1..Len(batch) |-> peer.i + k - 1]]
           \/ /\ outcome # "ok"
              /\ peer' = ChunkError(peer, c, outcome)
              /\ UNCHANGED <<store, last>>
        /\ UNCHANGED <<supabase_client, batch_size, served, req, now, loads, probe, frame, singleton>>

\* The chunk loop of the second worker is over.
PeerEnd ==
    /\ ReadyToPersist(peer)
    /\ peer.i > Len(peer.records)
    /\ peer' = [peer EXCEPT !.pc = "PERSISTED"]
    /\ UNCHANGED <<supabase_client, batch_size, served, req, store, last, now, loads, probe, frame, singleton>>

NextRace ==
    \/ \E outcome \in Outcomes : PersistChunk(outcome)
    \/ \E outcome \in Outcomes : PeerChunk(outcome)
    \/ EndPersist
    \/ PeerEnd

SpecRace == InitRace /\ [][NextRace]_vars

\* ---------------------------------------------------- feature preparation
\* What each domain does to the columns of an upload before its model sees
\* them, on its own.  A table is its header, one cell standing for each
\* column: "#7" a number, "abc" text that is no number, "" an empty cell
\* (NaN).  "#0" is the number zero.
Cells == {"#7", "abc", ""}

\* StockoutFeatureEngineer.__init__
cat_cols ==
    <<"store_id", "category", "region", "weather", "holiday_promo",
      "seasonality", "month", "day_of_week", "product_id">>

num_cols ==
    <<"inventory_level", "units_sold", "price", "discount",
      "competitor_pricing", "is_weekend">>

\* The dictionary handed to df.rename: a name that is no key stays.
mapping(name) ==
    CASE name = "Date" -> "date"
      [] name = "Store ID" -> "store_id"
      [] name = "Product ID" -> "product_id"
      [] name = "Category" -> "category"
      [] name = "Region" -> "region"
      [] name = "Inventory Level" -> "inventory_level"
      [] name = "Units Sold" -> "units_sold"
      [] name = "Units Ordered" -> "units_ordered"
      [] name = "Price" -> "price"
      [] name = "Discount" -> "discount"
      [] name = "Weather Condition" -> "weather"
      [] name = "Holiday/Promotion" -> "holiday_promo"
      [] name = "Competitor Pricing" -> "competitor_pricing"
      [] name = "Seasonality" -> "seasonality"
      [] OTHER -> name

\* The contents of smartport_features.pkl and the columns the engine model
\* was fitted on are part of the artifacts: three names stand for each.
expected_features == <<"feature_1", "feature_2", "feature_3">>

TrainedColumns == <<"sensor_1", "sensor_2", "sensor_3">>

\* The non-identity columns an upload of a domain may carry.
Pool(d) ==
    CASE d = "stockout" -> {"Date", "Store ID", "Category", "Price", "units_sold"}
      [] d = "smartport" -> Range(expected_features)
      [] d = "nasa" -> Range(TrainedColumns)

\* The headers over a pool, in any order, no name twice, with their cells.
Names(X) == {X[i].name : i \in 1..Len(X)}

RECURSIVE Headers(_, _)
Headers(pool, n) ==
    IF n = 0 THEN {<<>>}
    ELSE LET shorter == Headers(pool, n - 1)
         IN  shorter \cup
             UNION {{Append(h, [name |-> c, cell |-> v]) : c \in pool \ Names(h), v \in Cells} :
                       h \in {t \in shorter : Len(t) = n - 1}}

\* "col in df.columns" and df[col], for a header without repeated names
HasCol(X, col) == col \in Names(X)

CellOf(X, col) == X[CHOOSE i \in 1..Len(X) : X[i].name = col].cell

\* pd.to_numeric(..., errors="coerce"): a number stays, anything else is NaN
to_numeric(cell) == IF cell = "#7" THEN "#7" ELSE ""

\* .fillna(value)
fillna(cell, value) == IF cell = "" THEN value ELSE cell

\* .astype(str): the text of a cell; NaN reads "nan"
astype_str(cell) == IF cell = "#7" THEN "7" ELSE IF cell = "" THEN "nan" ELSE cell

\* A working frame that is the argument itself (df = X): the engine
\* transformer then assigns its columns in place.
SharesCells_alias(d) == d = "nasa"

\* df = X.copy() (nasa_predictor.py:29, stockout_predictor.py:33) and
\* X = df.drop(...) (smartport_predictor.py:45): the frame that is worked on
\* is a new object and shares no cell with the caller's table.
SharesCells(d) == FALSE

\* NASAFeatureEngineer.transform, the frame after lines 32-35 and the result:
\* the columns it was given, in the order it was given them, as numbers.
NasaCoerced(X) == [i \in 1..Len(X) |-> [name |-> X[i].name, cell |-> to_numeric(X[i].cell)]]

NasaTransform(X) ==
    [i \in 1..Len(X) |-> [name |-> X[i].name, cell |-> fillna(NasaCoerced(X)[i].cell, "#0")]]

\* StockoutFeatureEngineer.transform.  The time features come from the date
\* column: the month and weekday of a date that parses, "<NA>" as text for
\* one that does not, 'Unknown' without the column.
StockoutColumn(df, col) ==
    IF col \in {"month", "day_of_week"}
    THEN IF ~HasCol(df, "date") THEN "Unknown"
         ELSE IF CellOf(df, "date") = "#7" THEN (IF col = "month" THEN "1" ELSE "3")
         ELSE "<NA>"
    ELSE IF col = "is_weekend" THEN "#0"
    ELSE IF col \in Range(cat_cols)
    THEN IF HasCol(df, col) THEN astype_str(CellOf(df, col)) ELSE "Unknown"
    ELSE IF HasCol(df, col) THEN fillna(to_numeric(CellOf(df, col)), "#0") ELSE "#0"

StockoutTransform(X) ==
    LET df == [i \in 1..Len(X) |-> [name |-> mapping(X[i].name), cell |-> X[i].cell]]
        schema == cat_cols \o num_cols
    IN  [j \in 1..Len(schema) |-> [name |-> schema[j], cell |-> StockoutColumn(df, schema[j])]]

\* smartport_predictor.py:48-53: a missing feature becomes a column of 0, and
\* the columns are put in the order of expected_features.
SmartPortAlign(X) ==
    [j \in 1..Len(expected_features) |->
        [name |-> expected_features[j],
         cell |-> IF HasCol(X, expected_features[j]) THEN CellOf(X, expected_features[j])
                  ELSE "#0"]]

\* One call of a domain's preparation on the caller's table X: the table the
\* model is given, whether the call raised (the engine model rejects a matrix
\* that has not the number of columns it was fitted on), and what the
\* caller's table holds afterwards: only the engine transformer assigns
\* into the frame it starts from, the other two rebind it first (df.rename,
\* X[self.expected_features] after the drop).
Prepare(d, X) ==
    [table |-> CASE d = "nasa" -> NasaTransform(X)
                 [] d = "stockout" -> StockoutTransform(X)
                 [] d = "smartport" -> SmartPortAlign(X),
     raised |-> d = "nasa" /\ Len(X) # Len(TrainedColumns),
     X |-> IF SharesCells(d) /\ d = "nasa" THEN NasaCoerced(X) ELSE X]

InitFrames ==
    /\ supabase_client = FALSE
    /\ batch_size = 1
    /\ served = 0
    /\ req = IdleReq
    /\ store = [d \in Domains |-> {}]
    /\ last = [k \in Keys |-> [row |-> NoRow, n |-> 0]]
    /\ now = 0
    /\ loads = [d \in Domains |-> 0]
    /\ peer = IdleReq
    /\ probe = NoProbe
    /\ singleton = NoCalls
    /\ \E d \in Domains : \E X \in Headers(Pool(d), MaxCols) :
          frame = [dom |-> d, given |-> X, X |-> X, out |-> <<>>]

\* transform(X) / the alignment, called on the same table once more.
Transform ==
    /\ frame.dom \in Domains
    /\ Len(frame.out) < 2
    /\ LET call == Prepare(frame.dom, frame.X)
       IN  frame' = [frame EXCEPT !.X = call.X,
                                  !.out = Append(@, [table |-> call.table,
                                                     raised |-> call.raised])]
    /\ UNCHANGED <<supabase_client, batch_size, served, req, store, last, now, loads, peer,
                   probe, singleton>>

SpecFrames == InitFrames /\ [][Transform]_vars

\* ------------------------------------------------------- the classifiers
\* The classifiers on their own: every pair of scores a model can return
\* (probabilities in hundredths, remaining life in cycles), each score given
\* its tier.
Scores == 0..MaxScore

InitTiers ==
    /\ supabase_client = FALSE
    /\ batch_size = 1
    /\ served = 0
    /\ req = IdleReq
    /\ store = [d \in Domains |-> {}]
    /\ last = [k \in Keys |-> [row |-> NoRow, n |-> 0]]
    /\ now = 0
    /\ loads = [d \in Domains |-> 0]
    /\ peer = IdleReq
    /\ probe \in [fn : Domains, a : Scores, b : Scores, ta : {""}, tb : {""}]
    /\ frame = NoFrame
    /\ singleton = NoCalls

ClassifyPair ==
    /\ probe.fn \in Domains
    /\ probe.ta = ""
    /\ probe' = [probe EXCEPT !.ta = Tier(probe.fn, probe.a),
                              !.tb = Tier(probe.fn, probe.b)]
    /\ UNCHANGED <<supabase_client, batch_size, served, req, store, last, now, loads, peer,
                   frame, singleton>>

SpecTiers == InitTiers /\ [][ClassifyPair]_vars

\* ----------------------------------------------------------------- claims
PersistenceEnded(r) == r.pc \in {"PERSISTED", "SUMMARIZED"} \/ (r.pc = "FAILED" /\ r.submitted # {})

AllIndices(r) == [k \in 1..Len(r.records) |-> k]

\* C1: when the write of chunk i fails, every later chunk of the upload is
\* still submitted to the store before persistence ends.
C1_RemainingChunksAttempted ==
    PersistenceEnded(req) =>
        \A i \in req.failed :
            \A j \in (i + 1)..(total_batches(req.records) - 1) : j \in req.submitted

\* C2: when every write succeeds, persisting N records in chunks of
\* batch_size commits exactly the N records, each once and in order, whatever
\* batch_size is; the store then holds every record (for the engine table, a
\* row for every record's key).
C2_RoundTrip ==
    (req.pc \in {"PERSISTED", "SUMMARIZED"} /\ EntersLoop(req) /\ req.failed = {}) =>
        /\ req.written = AllIndices(req)
        /\ \A k \in 1..Len(req.records) :
              IF req.dom = "nasa"
              THEN \E row \in store[req.dom] : row.key = req.records[k].key
              ELSE req.records[k] \in store[req.dom]

C2_Witness ==
    /\ req.pc = "PERSISTED" /\ req.supabase /\ req.failed = {}
    /\ Len(req.records) = 3 /\ batch_size = 2 /\ req.written = <<1, 2, 3>>

\* C3: a chunk write that fails transiently is retried before it is recorded
\* as failed: when every failure of an upload was transient, all records end
\* up committed and no chunk is reported as failed.
C3_TransientFailureRetried ==
    (req.pc \in {"PERSISTED", "SUMMARIZED"} /\ EntersLoop(req)
        /\ req.failed \subseteq req.transient) =>
        req.failed = {} /\ req.written = AllIndices(req)

\* C4 as claimed: once an engine upload is answered, the store holds exactly
\* one row for each of its keys, and the row is that upload's.
C4_LatestUploadWins ==
    (req.dom = "nasa" /\ req.pc = "SUMMARIZED") =>
        \A k \in 1..Len(req.records) :
            /\ Cardinality({row \in store["nasa"] : row.key = req.records[k].key}) = 1
            /\ \A row \in store["nasa"] :
                  row.key = req.records[k].key => row.timestamp = req.seq

\* C4: after any sequence of engine uploads the store holds at most one row
\* per (unit_id, cycle) key, and that row is the record of the most recent
\* write of the key that the store accepted.
C4_UpsertOneRowPerKey ==
    \A k \in Keys :
        {row \in store["nasa"] : row.key = k}
            = (IF last[k].n = 0 THEN {} ELSE {last[k].row})

C4_Witness ==
    \E k \in Keys :
        /\ last[k].n >= 2
        /\ last[k].row.timestamp = 2
        /\ \E other \in Keys : other # k /\ last[other].n = 1 /\ last[other].row.timestamp = 1

\* C5: an upload whose file lacks the entity-identifier column ends with
\* {success: false, detail: "missing required column: <id>"} and nothing
\* written, in every domain (stated for the uploads whose model is loaded
\* and whose store accepts every write).
C5_MissingIdRejected ==
    (Terminal(req) /\ req.file.kind = "noid" /\ req.file.rows # <<>>
        /\ req.pipeline /\ req.supabase /\ req.failed = {}) =>
        /\ req.resp.kind = "json" /\ ~req.resp.success
        /\ req.resp.detail = "Missing required column: unit_id"
        /\ req.written = <<>>

\* C6: FAILED is entered only from RECEIVED, NORMALIZED, FEATURIZED or SCORED.
C6_FailedOnlyBeforeClassified ==
    req.pc = "FAILED" =>
        req.failedFrom \in {"RECEIVED", "NORMALIZED", "FEATURIZED", "SCORED"}

\* C7: no store write is issued before the model has returned a score for
\* every row, and a run in which loading, validation or scoring fails issues
\* no store write.
FailsBeforeScores(r) ==
    \/ r.pc = "FAILED" /\ r.failedFrom \in {"RECEIVED", "NORMALIZED"}
    \/ r.pc \notin {"idle", "RECEIVED"}
         /\ (~r.pipeline \/ r.file.kind \in {"unreadable", "badarity"} \/ MissingId(r.dom, r.file))

C7_PersistOnlyAfterScoring ==
    /\ req.submitted # {} =>
          /\ req.pc \notin {"idle", "RECEIVED", "LOADED", "NORMALIZED"}
          /\ Len(req.scores) = Len(req.file.rows)
    /\ FailsBeforeScores(req) => req.submitted = {} /\ req.written = <<>>

C7_Witness ==
    /\ req.pc = "FAILED" /\ req.failedFrom = "NORMALIZED" /\ req.file.kind = "badarity"
    /\ req.supabase /\ Len(req.file.rows) = 3

\* C8: a failed chunk write never turns the upload into a request failure:
\* the response still has success = true.
C8_ChunkFailureStillSuccess ==
    (Terminal(req) /\ req.failed # {}) =>
        req.resp.kind = "json" /\ req.resp.success

\* C9: every successful response carries the processed count, the risk-tier
\* distribution, aggregate metrics and a persistence summary.
C9_SummaryComplete ==
    req.pc = "SUMMARIZED" =>
        /\ req.resp.fields \cap {"processed_records", "predictions_generated"} # {}
        /\ req.resp.fields \cap {"distribution", "risk_summary"} # {}
        /\ req.resp.fields \cap {"total_exposure", "aggregate_metrics"} # {}
        /\ "persistence" \in req.resp.fields

\* C10: every failure path returns {success: false, detail: <reason>}; no
\* exception leaves a predictor's constructor or predict_from_file.
C10_FailuresAreStructured ==
    req.pc = "FAILED" =>
        /\ req.resp.kind = "json" /\ ~req.resp.success
        /\ {"success", "detail"} \subseteq req.resp.fields

\* C13: a product row whose price is missing (an empty or unparsable cell, or
\* no price column in the file) gets financial_impact = 0, every other row
\* score x price x units sold, and the upload is answered with success and
\* processed_records = the number of rows.
PriceMissing(f, k) == f.kind = "noprice" \/ PriceCell(f, k) = <<>>

C13_MissingInputIsZero ==
    (req.dom = "stockout" /\ Terminal(req) /\ req.pipeline /\ req.file.rows # <<>>
        /\ req.file.kind \in {"ok", "emptyprice", "noprice"}) =>
        /\ req.resp.kind = "json" /\ req.resp.success
        /\ req.resp.processed = Len(req.file.rows)
        /\ Len(req.records) = Len(req.file.rows)
        /\ \A k \in 1..Len(req.records) :
              req.records[k].financial_impact =
                  IF PriceMissing(req.file, k) THEN 0
                  ELSE req.scores[k] * PriceCell(req.file, k)[1] * UnitsCell(req.file, k)[1]

\* C14: no two prediction records, of any uploads and any domains, carry the
\* same prediction_id.
Produced(d) == store[d] \cup (IF req.dom = d THEN Range(req.records) ELSE {})

C14_PredictionIdUnique ==
    \A d1 \in Domains : \A d2 \in Domains :
        \A r1 \in Produced(d1) : \A r2 \in Produced(d2) :
            r1.prediction_id = r2.prediction_id => d1 = d2 /\ r1 = r2

\* C15: over the requests of one process the artifact of a domain is loaded
\* at most once.
C15_ArtifactLoadedOnce ==
    \A d \in Domains : loads[d] <= 1

\* C16: a missing artifact is reported when the process starts: no upload
\* request is where it is reported.
MissingArtifactDetails == {"Model not found", "Model not initialized", "Engine not initialized"}

C16_MissingArtifactFailsAtStartup ==
    req.pc = "FAILED" => req.resp.detail \notin MissingArtifactDetails

\* C17: when two concurrent engine uploads that share a key have both
\* written all their chunks, in whatever order the writes arrived, the store
\* holds exactly one row for the key and it is the row with the later
\* timestamp.
KeysOf(r) == {r.records[k].key : k \in 1..Len(r.records)}

Later(r1, r2) == IF r1.seq >= r2.seq THEN r1 ELSE r2

C17_LaterTimestampWins ==
    (req.pc = "PERSISTED" /\ peer.pc = "PERSISTED" /\ req.failed = {} /\ peer.failed = {}) =>
        \A k \in KeysOf(req) \cap KeysOf(peer) :
            /\ Cardinality({row \in store["nasa"] : row.key = k}) = 1
            /\ \A row \in store["nasa"] :
                  row.key = k => row.timestamp = Later(req, peer).seq

\* C18: once the write of a chunk has failed, the records of every chunk
\* committed before it are still in the store (for the engine table, where a
\* later upsert replaces a row: a row under the record's key that is not
\* older than this upload), for every predictor.
C18_CommittedChunksKept ==
    req.failed # {} =>
        \A k \in Range(req.written) :
            IF req.dom = "nasa"
            THEN \E row \in store["nasa"] :
                    row.key = req.records[k].key /\ row.timestamp >= req.seq
            ELSE req.records[k] \in store[req.dom]

C18_Witness ==
    /\ req.dom = "smartport" /\ req.pc = "FAILED" /\ req.failed = {2}
    /\ req.written = <<1, 2>> /\ batch_size = 1

\* C19: persistence issues exactly ceil(N / batch_size) writes (none for
\* N = 0), one after the other in order; write c carries the records from
\* c * batch_size up to min((c + 1) * batch_size, N) exclusive, at least one
\* and at most batch_size of them.
C19_ChunksCoverAll ==
    PersistenceEnded(req) =>
        /\ req.submitted = 0..(total_batches(req.records) - 1)
        /\ \A c \in req.submitted :
              LET batch == Batch(req.records, c * batch_size + 1)
              IN  /\ batch = SubSeq(req.records, c * batch_size + 1,
                                    Min((c + 1) * batch_size, Len(req.records)))
                  /\ Len(batch) >= 1 /\ Len(batch) <= batch_size

\* C20: an upload of N rows that has been scored ends with exactly N records
\* built, the k-th record made from the k-th row and its score, and with
\* N reported as processed.
WasScored(r) ==
    /\ r.pc \notin {"idle", "RECEIVED", "LOADED", "NORMALIZED"}
    /\ ~(r.pc = "FAILED" /\ r.failedFrom \in {"RECEIVED", "NORMALIZED"})

FromRow(r, k) ==
    CASE r.dom = "nasa" ->
           r.records[k].key = r.file.rows[k] /\ r.records[k].predicted_rul = r.scores[k]
      [] r.dom = "smartport" ->
           r.records[k].vessel_index = k /\ r.records[k].risk_score = r.scores[k]
      [] r.dom = "stockout" ->
           r.records[k].risk_score = r.scores[k]

C20_NoRowDropped ==
    (Terminal(req) /\ WasScored(req)) =>
        /\ Len(req.records) = Len(req.file.rows)
        /\ \A k \in 1..Len(req.records) : FromRow(req, k)
        /\ req.resp.success => req.resp.processed = Len(req.file.rows)

\* ---------------------------------------------------- claims on the tiers
\* How severe a tier is.
Severity(t) ==
    CASE t \in {"LOW", "NORMAL", "STABLE"} -> 0
      [] t \in {"MEDIUM", "WARNING", "MAINTENANCE REQUIRED"} -> 1
      [] t = "HIGH" -> 2
      [] t = "CRITICAL" -> 3

\* The tiers of a probabilistic domain and the score each one starts at.
Tiers(d) ==
    IF d = "stockout" THEN {"LOW", "MEDIUM", "HIGH", "CRITICAL"}
    ELSE {"NORMAL", "WARNING", "CRITICAL"}

Threshold(d, t) ==
    IF d = "stockout"
    THEN CASE t = "CRITICAL" -> 80 [] t = "HIGH" -> 50 [] t = "MEDIUM" -> 20 [] OTHER -> 0
    ELSE CASE t = "CRITICAL" -> 90 [] t = "WARNING" -> 70 [] OTHER -> 0

\* C11: every score is given one tier of its domain, the most severe tier
\* whose threshold the score reaches, a score on a threshold included: 0.80
\* is CRITICAL, 0.50 is HIGH and 0.20 is MEDIUM for a product.
C11_ClassifyTotalInclusive ==
    (probe.ta # "" /\ probe.fn \in {"smartport", "stockout"}) =>
        /\ probe.ta \in Tiers(probe.fn)
        /\ probe.a >= Threshold(probe.fn, probe.ta)
        /\ \A u \in Tiers(probe.fn) :
              probe.a >= Threshold(probe.fn, u) => Severity(u) <= Severity(probe.ta)
        /\ probe.fn = "stockout" =>
              /\ probe.a = 80 => probe.ta = "CRITICAL"
              /\ probe.a = 50 => probe.ta = "HIGH"
              /\ probe.a = 20 => probe.ta = "MEDIUM"

C11_Witness ==
    /\ probe.fn = "stockout" /\ probe.a = 80 /\ probe.ta = "CRITICAL"
    /\ probe.b = 50 /\ probe.tb = "HIGH"

\* C12: of two scores of a probabilistic domain the larger one never gets the
\* less severe tier, and of two predicted remaining lives of an engine the
\* smaller one never gets the less severe status.
C12_TierMonotone ==
    (probe.ta # "" /\ probe.a <= probe.b) =>
        IF probe.fn = "nasa"
        THEN Severity(probe.ta) >= Severity(probe.tb)
        ELSE Severity(probe.ta) <= Severity(probe.tb)

C12_Witness ==
    /\ probe.fn = "nasa" /\ probe.a = 29 /\ probe.b = 30
    /\ probe.ta = "CRITICAL" /\ probe.tb = "MAINTENANCE REQUIRED"

\* C22: every tier the vessel classifier gives has an action text of its own,
\* so the recommended_action of a vessel record is never missing.
ActionTexts == {ACTION_MAP(t) : t \in Tiers("smartport")}

C22_ActionMapTotal ==
    (probe.fn = "smartport" /\ probe.ta # "") =>
        /\ ACTION_MAP(probe.ta) # "NaN" /\ ACTION_MAP(probe.tb) # "NaN"
        /\ probe.ta # probe.tb => ACTION_MAP(probe.ta) # ACTION_MAP(probe.tb)

C22_Witness ==
    /\ probe.fn = "smartport" /\ probe.a = 70 /\ probe.ta = "WARNING"
    /\ probe.b = 95 /\ probe.tb = "CRITICAL"

\* ------------------------------------------- claims on the unloaded model
\* C25: an engine or product predictor whose pipeline is unset answers every
\* upload with success = false and a detail; it reads no file, invokes no
\* model and issues no store write, upload after upload.
C25_UnloadedRejectsUntouched ==
    (req.dom \in {"nasa", "stockout"} /\ ~req.pipeline /\ req.pc \notin {"idle", "RECEIVED"}) =>
        /\ req.pc \in {"LOADED", "FAILED"}
        /\ req.pc = "FAILED" =>
              /\ req.resp.kind = "json" /\ ~req.resp.success
              /\ req.resp.detail \in {"Model not initialized", "Engine not initialized"}
              /\ req.failedFrom = "RECEIVED"
        /\ ~req.read
        /\ req.scores = <<>> /\ req.records = <<>>
        /\ req.submitted = {} /\ req.written = <<>>

C25_Witness ==
    /\ served = 2 /\ \A d \in Domains : loads[d] = 0
    /\ req.dom = "nasa" /\ req.pc = "FAILED" /\ ~req.pipeline /\ req.supabase
    /\ req.file.kind = "ok" /\ Len(req.file.rows) = 3

\* ------------------------------------------------------ the store client
\* get_supabase() (supabase_client.py:10-32) statement by statement, called
\* from several threads of one process: every Streamlit page wraps it in a
\* cached function of its own (suite_streamlit.py:24-26,
\* pages/*_streamlit.py) and Streamlit runs each session's script in a
\* thread.  The function takes no lock.  singleton.cached is the global
\* _supabase_client (0 is None, k the k-th client made in the process),
\* singleton.made the number of clients create_client has returned, and
\* each thread has its position in the function, the calls it has begun and
\* the values its calls have returned.
IdleThread == [pc |-> "idle", calls |-> 0, returned |-> {}]

Threads == 1..MaxThreads

InitClient ==
    /\ supabase_client = FALSE
    /\ batch_size = 1
    /\ served = 0
    /\ req = IdleReq
    /\ store = [d \in Domains |-> {}]
    /\ last = [k \in Keys |-> [row |-> NoRow, n |-> 0]]
    /\ now = 0
    /\ loads = [d \in Domains |-> 0]
    /\ peer = IdleReq
    /\ probe = NoProbe
    /\ frame = NoFrame
    /\ singleton = [NoCalls EXCEPT !.thread = [t \in Threads |-> IdleThread]]

Others == <<batch_size, served, req, store, last, now, loads, peer, probe, frame>>

\* a thread returns v from its call
Returns(t, v) ==
    [singleton EXCEPT !.thread[t].pc = "idle", !.thread[t].returned = @ \cup {v}]

\* def get_supabase(): a thread enters the function
Call(t) ==
    /\ singleton.thread[t].pc = "idle"
    /\ singleton.thread[t].calls < MaxCalls
    /\ singleton' = [singleton EXCEPT !.thread[t].pc = "test", !.thread[t].calls = @ + 1]
    /\ UNCHANGED <<supabase_client, Others>>

\* if _supabase_client is None:
TestNone(t) ==
    /\ singleton.thread[t].pc = "test"
    /\ singleton' = [singleton EXCEPT
                        !.thread[t].pc = IF singleton.cached = 0 THEN "env" ELSE "return"]
    /\ UNCHANGED <<supabase_client, Others>>

\* url = os.getenv(...); key = os.getenv(...); if not url or not key: return None
GetEnv(t, present) ==
    /\ singleton.thread[t].pc = "env"
    /\ singleton' = IF present THEN [singleton EXCEPT !.thread[t].pc = "create"]
                               ELSE Returns(t, 0)
    /\ UNCHANGED <<supabase_client, Others>>

\* try: _supabase_client = create_client(url, key)  except: return None
CreateClient(t, created) ==
    /\ singleton.thread[t].pc = "create"
    /\ IF created
       THEN /\ singleton' = [singleton EXCEPT !.made = @ + 1, !.cached = singleton.made + 1,
                                              !.thread[t].pc = "return"]
            /\ supabase_client' = TRUE
       ELSE /\ singleton' = Returns(t, 0)
            /\ UNCHANGED supabase_client
    /\ UNCHANGED Others

\* return _supabase_client
ReturnClient(t) ==
    /\ singleton.thread[t].pc = "return"
    /\ singleton' = Returns(t, singleton.cached)
    /\ UNCHANGED <<supabase_client, Others>>

NextClient ==
    \E t \in Threads :
        \/ Call(t)
        \/ TestNone(t)
        \/ \E present \in BOOLEAN : GetEnv(t, present)
        \/ \E created \in BOOLEAN : CreateClient(t, created)
        \/ ReturnClient(t)

SpecClient == InitClient /\ [][NextClient]_vars

\* --------------------------------------- claims on feature preparation
\* The columns a domain's model expects, in its order, the input column a
\* prepared column is made from, and the default a missing one is to get.
Canonical(d) ==
    CASE d = "nasa" -> TrainedColumns
      [] d = "stockout" -> cat_cols \o num_cols
      [] d = "smartport" -> expected_features

SourceOf(col) == IF col \in {"month", "day_of_week", "is_weekend"} THEN "date" ELSE col

Carried(given, col) == \E i \in 1..Len(given) : mapping(given[i].name) = SourceOf(col)

DefaultOf(d, col) == IF d = "stockout" /\ col \in Range(cat_cols) THEN "Unknown" ELSE "#0"

\* C21: whatever non-identity columns an upload carries, preparation does not
\* raise and its output has every canonical column, in the model's order,
\* a column the upload lacks holding the default (zero, or "Unknown" for a
\* categorical one).
C21_DefaultsFilled ==
    frame.out # <<>> =>
        LET o == frame.out[1]
        IN  /\ ~o.raised
            /\ [i \in 1..Len(o.table) |-> o.table[i].name] = Canonical(frame.dom)
            /\ \A i \in 1..Len(o.table) :
                  ~Carried(frame.given, o.table[i].name) =>
                      o.table[i].cell = DefaultOf(frame.dom, o.table[i].name)

C24_SingleClient ==
    /\ singleton.made <= 1
    /\ singleton.cached = (IF singleton.made = 0 THEN 0 ELSE 1)
    /\ \A t \in DOMAIN singleton.thread : singleton.thread[t].returned \subseteq {0, 1}

====
